---- MODULE Spec2Model ----
(***************************************************************************)
(* Relay server of the post-quantum chat: the connection registry          *)
(* (clients, username_to_sid), the group store (group_manager) and the     *)
(* socket event handlers of app.py.                                        *)
(***************************************************************************)
EXTENDS Integers, Sequences, FiniteSets, TLC

\* ------------------------------------------------------------------ bounds
\* Connections the transport opens in one run (sids are never reused).
NumSids == 2
\* Longest member list of a create_group event.
MaxMembers == 2
\* Groups the store may hold.
MaxGroups == 1
\* Messages a group's log may hold.
MaxMsgs == 1
\* Seconds the clock may run past the expiration time of a group.
MaxTicks == 2

SidList == <<"s1", "s2", "s3", "s4", "s5", "s6">>

Sids == {SidList[i] : i \in 1..NumSids}
Names == {"alice", "bob"}
Keys == {"k1", "k2"}
GroupNames == {"team"}
Payloads == {"m1"}

\* Python's None: the value of data.get(k) when the field k is missing.
None == "<None>"
\* emit(..., broadcast=True) addresses every connection.
Broadcast == "<all>"

Truthy(x) == x # None

VARIABLES
    connected,        \* sids of the open socket connections (transport)
    gone,             \* sids whose connection was closed (sids are not reused)
    clients,          \* app.py clients: dict sid -> {"name", "pubkey"}, in insertion order
    username_to_sid,  \* app.py username_to_sid: dict username -> sid
    groups,           \* group_manager.groups: dict group_id -> Group
    now,              \* the clock read by time(): it has advanced at every reading
    req,              \* the inbound event handled last
    out,              \* what the handler of req emitted, in order
    pc,               \* thread-per-event execution: position of each sid's handler
    loc               \* thread-per-event execution: locals of each sid's handler

vars == <<connected, gone, clients, username_to_sid, groups, now, req, out, pc, loc>>

\* ------------------------------------------------------- dict "clients"
\* A Python dict keeps insertion order; assigning to an existing key keeps
\* the key's position.  clients is the sequence of its items.
Has(c, sid) == \E i \in 1..Len(c) : c[i].sid = sid

PosOf(c, sid) == CHOOSE i \in 1..Len(c) : c[i].sid = sid

Get(c, sid) == c[PosOf(c, sid)]

Put(c, sid, name, pubkey) ==
    LET item == [sid |-> sid, name |-> name, pubkey |-> pubkey]
    IN  IF Has(c, sid) THEN [c EXCEPT ![PosOf(c, sid)] = item] ELSE Append(c, item)

Pop(c, sid) == SelectSeq(c, LAMBDA e : e.sid # sid)

\* clients.get(sid, {}).get("name")
NameOf(c, sid) == IF Has(c, sid) THEN Get(c, sid).name ELSE None

\* ------------------------------------------------ dict "username_to_sid"
IndexSet(u, name, sid) == [n \in DOMAIN u \cup {name} |-> IF n = name THEN sid ELSE u[n]]

IndexPop(u, name) == [n \in DOMAIN u \ {name} |-> u[n]]

\* username_to_sid.get(name)
IndexGet(u, name) == IF name \in DOMAIN u THEN u[name] ELSE None

\* ------------------------------------------------------------- emissions
Emit(ev, to, skip, data) == [ev |-> ev, to |-> to, skip |-> skip, data |-> data]

\* The connections an emission is delivered to, among the open ones.
Recipients(e, conns) ==
    IF e.to = Broadcast THEN conns \ {e.skip} ELSE {e.to} \cap conns

\* A group id no group has.
NoGid == <<None, None, -1>>

NoReq == [op |-> "init", sid |-> None, name |-> None, pubkey |-> None,
          members |-> <<>>, gid |-> NoGid, msg |-> None]

Req(op, sid, name, pubkey, members, gid, msg) ==
    [op |-> op, sid |-> sid, name |-> name, pubkey |-> pubkey,
     members |-> members, gid |-> gid, msg |-> msg]

\* ------------------------------------------------------ broadcast_user_list
\* {clients[sid]["name"]: sid for sid in clients if clients[sid].get("name")}:
\* a later item of clients overwrites an earlier one of the same name.
user_map(c) ==
    LET named == {i \in 1..Len(c) : Truthy(c[i].name)}
        last(n) == CHOOSE i \in named : c[i].name = n /\ \A j \in named : c[j].name = n => j <= i
    IN  [n \in {c[i].name : i \in named} |-> c[last(n)].sid]

broadcast_user_list(c) == Emit("user_list", Broadcast, None, user_map(c))

\* ------------------------------------------------------- on_register_user
\* line 60: the username is taken
NameTaken(u, username, sid) == username \in DOMAIN u /\ u[username] # sid

\* line 66
RegisterClients(c, sid, username) == Put(c, sid, username, None)

\* line 67
RegisterIndex(u, sid, username) == IndexSet(u, username, sid)

RegisterOut_ErrorToAll(c, u, sid, username) ==
    IF ~Truthy(username) THEN <<>>
    ELSE IF NameTaken(u, username, sid)
         THEN <<Emit("registration_error", Broadcast, None, "Username already taken")>>
         ELSE <<Emit("registration_confirmed", sid, None, username),
                broadcast_user_list(RegisterClients(c, sid, username))>>

RegisterOut(c, u, sid, username) ==
    IF ~Truthy(username) THEN <<>>
    ELSE IF NameTaken(u, username, sid)
         THEN <<Emit("registration_error", sid, None, "Username already taken")>>
         ELSE <<Emit("registration_confirmed", sid, None, username),
                broadcast_user_list(RegisterClients(c, sid, username))>>

on_register_user(sid, username) ==
    /\ sid \in connected
    /\ req' = Req("register_user", sid, username, None, <<>>, NoGid, None)
    /\ out' = RegisterOut(clients, username_to_sid, sid, username)
    /\ IF Truthy(username) /\ ~NameTaken(username_to_sid, username, sid)
       THEN /\ clients' = RegisterClients(clients, sid, username)
            /\ username_to_sid' = RegisterIndex(username_to_sid, sid, username)
       ELSE UNCHANGED <<clients, username_to_sid>>
    /\ UNCHANGED <<connected, gone, groups, now, pc, loc>>

\* ------------------------------------------------------------- on_connect
on_connect(sid) ==
    /\ sid \notin connected \cup gone
    \* the transport issues fresh sids; they are taken in the order of SidList
    /\ \A i, j \in 1..NumSids : (SidList[j] = sid /\ i < j) => SidList[i] \in connected \cup gone
    /\ connected' = connected \cup {sid}
    /\ req' = Req("connect", sid, None, None, <<>>, NoGid, None)
    /\ out' = <<>>
    /\ UNCHANGED <<gone, clients, username_to_sid, groups, now, pc, loc>>

\* ---------------------------------------------------------- on_disconnect
\* line 116
DisconnectClients(c, sid) == Pop(c, sid)

\* Faulty variant of DisconnectIndex: the name stays in the index.
DisconnectIndex_KeepsName(u, hasInfo, name) == u

\* lines 119-121; info is clients.get(sid) taken before the pop
DisconnectIndex(u, hasInfo, name) ==
    IF hasInfo /\ Truthy(name) THEN IndexPop(u, name) ELSE u

\* Faulty variant of DisconnectOut: include_self=False is forgotten, so the
\* peer-left notice is addressed to the leaving connection too.
DisconnectOut_IncludesSelf(c, sid, hasInfo, name) ==
    (IF hasInfo /\ Truthy(name)
     THEN <<Emit("user_disconnected", Broadcast, None, name)>>
     ELSE <<>>)
    \o <<broadcast_user_list(DisconnectClients(c, sid))>>

\* lines 119-129
DisconnectOut(c, sid, hasInfo, name) ==
    (IF hasInfo /\ Truthy(name)
     THEN <<Emit("user_disconnected", Broadcast, sid, name)>>
     ELSE <<>>)
    \o <<broadcast_user_list(DisconnectClients(c, sid))>>

on_disconnect(sid) ==
    /\ sid \in connected
    /\ connected' = connected \ {sid}
    /\ gone' = gone \cup {sid}
    /\ req' = Req("disconnect", sid, NameOf(clients, sid), None, <<>>, NoGid, None)
    /\ clients' = DisconnectClients(clients, sid)
    /\ username_to_sid' = DisconnectIndex(username_to_sid, Has(clients, sid), NameOf(clients, sid))
    /\ out' = DisconnectOut(clients, sid, Has(clients, sid), NameOf(clients, sid))
    /\ UNCHANGED <<groups, now, pc, loc>>

\* -------------------------------------------------------------- on_pubkey
\* lines 139-145
PubkeyClients_Upsert(c, sid, name, pubkey) == Put(c, sid, name, pubkey)

PubkeyClients(c, sid, name, pubkey) ==
    IF Has(c, sid) THEN Put(c, sid, Get(c, sid).name, pubkey)
    ELSE Put(c, sid, name, pubkey)

PubkeyIndex(c, u, sid, name) ==
    IF Has(c, sid) THEN u ELSE IndexSet(u, name, sid)

\* line 155
peer_pubkeys_WithSelf(c, sid) ==
    LET peers == {i \in 1..Len(c) : Truthy(c[i].pubkey)}
    IN  [s \in {c[i].sid : i \in peers} |-> Get(c, s).pubkey]

peer_pubkeys(c, sid) ==
    LET peers == {i \in 1..Len(c) : c[i].sid # sid /\ Truthy(c[i].pubkey)}
    IN  [s \in {c[i].sid : i \in peers} |-> Get(c, s).pubkey]

on_pubkey(sid, name, pubkey) ==
    /\ sid \in connected
    /\ req' = Req("pubkey", sid, name, pubkey, <<>>, NoGid, None)
    /\ clients' = PubkeyClients(clients, sid, name, pubkey)
    /\ username_to_sid' = PubkeyIndex(clients, username_to_sid, sid, name)
    /\ out' = <<broadcast_user_list(clients'),
                Emit("peer_pubkeys", sid, None, peer_pubkeys(clients', sid))>>
    /\ UNCHANGED <<connected, gone, groups, now, pc, loc>>

\* ------------------------------------------------------ on_request_pubkey
RequestPubkeyOut(c, u, sid, target) ==
    LET target_sid == IndexGet(u, target)
    IN  IF ~Truthy(target_sid) \/ ~Has(c, target_sid)
        THEN <<Emit("pubkey_error", sid, None, "not found")>>
        ELSE IF ~Truthy(Get(c, target_sid).pubkey)
             THEN <<Emit("pubkey_error", sid, None, "has no public key")>>
             ELSE <<Emit("pubkey_response", sid, None, Get(c, target_sid).pubkey)>>

on_request_pubkey(sid, target) ==
    /\ sid \in connected
    /\ req' = Req("request_pubkey", sid, target, None, <<>>, NoGid, None)
    /\ out' = RequestPubkeyOut(clients, username_to_sid, sid, target)
    /\ UNCHANGED <<connected, gone, clients, username_to_sid, groups, now, pc, loc>>

\* ------------------------------ on_send_kem_ciphertext, on_send_message
\* lines 168, 188: clients.get(request.sid, {}).get("name", request.sid); the
\* sid stands in only when the sender has no record, a record's name is
\* taken as it is.
SenderName(c, sid) == IF Has(c, sid) THEN Get(c, sid).name ELSE sid

\* lines 172-175: forwarded when the target sid has a client record
SendKemOut(c, sid, target_sid, ciphertext) ==
    IF Has(c, target_sid)
    THEN <<Emit("recv_kem_ciphertext", target_sid, None,
                [from |-> SenderName(c, sid), ciphertext |-> ciphertext])>>
    ELSE <<>>

on_send_kem_ciphertext(sid, target_sid, ciphertext) ==
    /\ sid \in connected
    /\ req' = Req("send_kem_ciphertext", sid, target_sid, None, <<>>, NoGid, ciphertext)
    /\ out' = SendKemOut(clients, sid, target_sid, ciphertext)
    /\ UNCHANGED <<connected, gone, clients, username_to_sid, groups, now, pc, loc>>

\* lines 194-198
SendMessageOut(c, sid, target_sid, base64Message) ==
    IF Has(c, target_sid)
    THEN <<Emit("recv_message", target_sid, None,
                [from |-> SenderName(c, sid), base64Message |-> base64Message])>>
    ELSE <<>>

on_send_message(sid, target_sid, base64Message) ==
    /\ sid \in connected
    /\ req' = Req("send_message", sid, target_sid, None, <<>>, NoGid, base64Message)
    /\ out' = SendMessageOut(clients, sid, target_sid, base64Message)
    /\ UNCHANGED <<connected, gone, clients, username_to_sid, groups, now, pc, loc>>

\* ------------------------------------------------------------ group.py
\* Group.make_unique_id: sha256 of name + admin_name + str(time()).  The hash
\* is taken as injective; over the names modelled here the concatenation is
\* injective too, so the id is the triple.
make_unique_id(name, admin_name, t) == <<name, admin_name, t>>

InSeq(x, q) == \E i \in 1..Len(q) : q[i] = x

\* Group.__init__ lines 13-17: the admin is appended when it is not listed.
GroupMembers_AsListed(admin_name, member_names) == member_names

GroupMembers(admin_name, member_names) ==
    IF InSeq(admin_name, member_names) THEN member_names
    ELSE Append(member_names, admin_name)

\* Group.__init__
Group(name, admin_name, member_names, t) ==
    [name |-> name, admin_name |-> admin_name,
     members |-> GroupMembers(admin_name, member_names),
     group_id |-> make_unique_id(name, admin_name, t),
     messages |-> <<>>, created_at |-> t]

\* Group.is_member
is_member(group, username) == InSeq(username, group.members)

\* GroupManager.create_group: self.groups[group.group_id] = group
GroupsSet(gs, group) ==
    [g \in DOMAIN gs \cup {group.group_id} |-> IF g = group.group_id THEN group ELSE gs[g]]

\* Group.is_admin
is_admin(group, username) == username = group.admin_name

\* Group.add_member: the group after the call, and the value returned
add_member(group, member_name) ==
    IF ~InSeq(member_name, group.members)
    THEN [group EXCEPT !.members = Append(@, member_name)]
    ELSE group

add_member_result(group, member_name) == ~InSeq(member_name, group.members)

\* list.remove: the first occurrence of x is taken out of q
RemoveFirst(q, x) ==
    LET at == CHOOSE i \in 1..Len(q) : q[i] = x /\ \A j \in 1..(i - 1) : q[j] # x
    IN  [j \in 1..(Len(q) - 1) |-> IF j < at THEN q[j] ELSE q[j + 1]]

\* Group.remove_member: the group after the call, and the value returned
remove_member_NoAdminTest(group, member_name) ==
    IF InSeq(member_name, group.members)
    THEN [group EXCEPT !.members = RemoveFirst(@, member_name)]
    ELSE group

remove_member(group, member_name) ==
    IF member_name = group.admin_name THEN group
    ELSE IF InSeq(member_name, group.members)
         THEN [group EXCEPT !.members = RemoveFirst(@, member_name)]
         ELSE group

remove_member_result(group, member_name) ==
    member_name # group.admin_name /\ InSeq(member_name, group.members)

\* GroupManager.get_group: self.groups.get(group_id); the Group object or
\* None, written as a sequence of one group or of none.
get_group(gs, group_id) == IF group_id \in DOMAIN gs THEN <<gs[group_id]>> ELSE <<>>

\* GroupManager.delete_group
delete_group(gs, group_id) == [g \in DOMAIN gs \ {group_id} |-> gs[g]]

\* GroupManager.get_user_groups (the groups, without the order of the list)
get_user_groups(gs, username) == {gs[g] : g \in {x \in DOMAIN gs : is_member(gs[x], username)}}

\* GroupManager.__init__: seconds before a group expires
expiration_time == 86400

\* GroupManager.cleanup_expired_groups, lines 114-117
expired_groups(gs, current_time) ==
    {g \in DOMAIN gs : current_time - gs[g].created_at > expiration_time}

\* GroupManager.cleanup_expired_groups, lines 118-119
cleanup_expired_groups(gs, current_time) ==
    [g \in DOMAIN gs \ expired_groups(gs, current_time) |-> gs[g]]

\* --------------------------------------------------------- on_create_group
\* line 223
missing_members(u, member_names) == SelectSeq(member_names, LAMBDA m : m \notin DOMAIN u)

\* lines 242-251: one invitation per item of the member list that is not the
\* admin and that the name index resolves.
RECURSIVE Invitations(_, _, _)
Invitations(u, group, members) ==
    IF members = <<>> THEN <<>>
    ELSE LET m == Head(members)
             member_sid == IndexGet(u, m)
         IN  (IF m # group.admin_name /\ Truthy(member_sid)
              THEN <<Emit("group_invitation", member_sid, None, group)>>
              ELSE <<>>)
             \o Invitations(u, group, Tail(members))

CreateGroupError(c, u, sid, group_name, member_names) ==
    IF ~Truthy(NameOf(c, sid)) THEN "You must be registered to create a group"
    ELSE IF ~Truthy(group_name) \/ member_names = <<>> THEN "Group name and members required"
    ELSE IF missing_members(u, member_names) # <<>> THEN "Members not found"
    ELSE None

on_create_group(sid, group_name, member_names) ==
    LET err == CreateGroupError(clients, username_to_sid, sid, group_name, member_names)
        group == Group(group_name, NameOf(clients, sid), member_names, now)
    IN  /\ sid \in connected
        /\ req' = Req("create_group", sid, group_name, None, member_names, NoGid, None)
        /\ IF err # None
           THEN /\ out' = <<Emit("group_error", sid, None,
                                 [message |-> err,
                                  missing |-> IF err = "Members not found"
                                              THEN missing_members(username_to_sid, member_names)
                                              ELSE <<>>])>>
                /\ UNCHANGED <<groups, now>>
           ELSE /\ Cardinality(DOMAIN groups) < MaxGroups
                /\ groups' = GroupsSet(groups, group)
                /\ now' = now + 1
                /\ out' = <<Emit("group_created", sid, None, group)>>
                          \o Invitations(username_to_sid, group, group.members)
        /\ UNCHANGED <<connected, gone, clients, username_to_sid, pc, loc>>

\* --------------------------------------------------- on_send_group_message
\* lines 320-328: one delivery per item of the member list that the name
\* index resolves to a sid other than the sender's.
RECURSIVE FanOut(_, _, _, _, _)
FanOut(u, sid, group, members, payload) ==
    IF members = <<>> THEN <<>>
    ELSE LET member_sid == IndexGet(u, Head(members))
         IN  (IF Truthy(member_sid) /\ member_sid # sid
              THEN <<Emit("recv_group_message", member_sid, None, payload)>>
              ELSE <<>>)
             \o FanOut(u, sid, group, Tail(members), payload)

on_send_group_message(sid, gid, msg) ==
    LET sender_name == NameOf(clients, sid)
    IN  /\ sid \in connected
        /\ req' = Req("send_group_message", sid, sender_name, None, <<>>, gid, msg)
        /\ IF gid \notin DOMAIN groups
           THEN /\ out' = <<Emit("group_error", sid, None, [message |-> "Group not found", missing |-> <<>>])>>
                /\ UNCHANGED groups
           ELSE IF ~is_member(groups[gid], sender_name)
           THEN /\ out' = <<Emit("group_error", sid, None,
                                 [message |-> "You are not a member of this group", missing |-> <<>>])>>
                /\ UNCHANGED groups
           ELSE /\ Len(groups[gid].messages) < MaxMsgs
                /\ groups' = [groups EXCEPT ![gid].messages =
                                 Append(@, [sender |-> sender_name, encrypted_message |-> msg,
                                            timestamp |-> now])]
                /\ out' = FanOut(username_to_sid, sid, groups[gid], groups[gid].members,
                                 [group_id |-> gid, group_name |-> groups[gid].name,
                                  sender |-> sender_name, encrypted_message |-> msg])
        /\ UNCHANGED <<connected, gone, clients, username_to_sid, now, pc, loc>>

\* ------------------------------------------------- on_distribute_group_key
\* lines 280-288: encrypted_keys is a dict, here the sequence of its items
\* <<member_name, encrypted_key>>; one group_key per item whose name is in the
\* member list and that the name index resolves.
RECURSIVE GroupKeys(_, _, _)
GroupKeys(u, group, encrypted_keys) ==
    IF encrypted_keys = <<>> THEN <<>>
    ELSE LET member_name == Head(encrypted_keys)[1]
             encrypted_key == Head(encrypted_keys)[2]
             member_sid == IndexGet(u, member_name)
         IN  (IF InSeq(member_name, group.members) /\ Truthy(member_sid)
              THEN <<Emit("group_key", member_sid, None,
                          [group_id |-> group.group_id, group_name |-> group.name,
                           encrypted_key |-> encrypted_key])>>
              ELSE <<>>)
             \o GroupKeys(u, group, Tail(encrypted_keys))

on_distribute_group_key(sid, gid, encrypted_keys) ==
    LET admin_name == NameOf(clients, sid)
    IN  /\ sid \in connected
        /\ req' = Req("distribute_group_key", sid, admin_name, None, <<>>, gid, encrypted_keys)
        /\ out' = IF get_group(groups, gid) = <<>>
                  THEN <<Emit("group_error", sid, None,
                              [message |-> "Group not found", missing |-> <<>>])>>
                  ELSE IF ~is_admin(groups[gid], admin_name)
                  THEN <<Emit("group_error", sid, None,
                              [message |-> "Only admin can distribute keys", missing |-> <<>>])>>
                  ELSE GroupKeys(username_to_sid, groups[gid], encrypted_keys)
        /\ UNCHANGED <<connected, gone, clients, username_to_sid, groups, now, pc, loc>>

\* The encrypted_keys of a distribute_group_key event: items with distinct
\* names, at most one per name.
KeyDicts ==
    {<<>>} \cup {<<<<n, k>>>> : n \in Names, k \in Keys}
           \cup {d \in {<<<<n1, k1>>, <<n2, k2>>>> : n1 \in Names, n2 \in Names, k1 \in Keys, k2 \in Keys} :
                    d[1][1] # d[2][1]}

\* Member lists of a create_group event: data.get("members", []).
MemberLists == UNION {[1..n -> Names] : n \in 0..MaxMembers}

\* Group ids a client may send: those of the store and an unknown one.
GidInputs == DOMAIN groups \cup {NoGid}

\* ------------------------------------------ the group store (group.py)
\* The calls GroupManager and Group offer, on the store alone.  A call is
\* recorded in req (name: the user name it is about) and the value it
\* returns in out.  time() is the clock now, in seconds.
MaxClock == expiration_time + MaxTicks

\* The instants the clock is read at: up to MaxTicks seconds after the
\* creation of the first group and after its expiration time.
OnClock(t) == t <= MaxClock /\ t % expiration_time <= MaxTicks

Return(value) == <<Emit("return", None, None, value)>>

store_create_group(name, admin_name, member_names) ==
    LET group == Group(name, admin_name, member_names, now)
    IN  /\ Cardinality(DOMAIN groups) < MaxGroups
        /\ OnClock(now + 1)
        /\ req' = Req("create_group", None, admin_name, None, member_names, group.group_id, None)
        /\ groups' = GroupsSet(groups, group)
        /\ now' = now + 1
        /\ out' = Return(group)
        /\ UNCHANGED <<connected, gone, clients, username_to_sid, pc, loc>>

store_add_member(gid, member_name) ==
    /\ gid \in DOMAIN groups
    /\ Len(groups[gid].members) <= MaxMembers
    /\ req' = Req("add_member", None, member_name, None, <<>>, gid, None)
    /\ groups' = [groups EXCEPT ![gid] = add_member(@, member_name)]
    /\ out' = Return(add_member_result(groups[gid], member_name))
    /\ UNCHANGED <<connected, gone, clients, username_to_sid, now, pc, loc>>

store_remove_member(gid, member_name) ==
    /\ gid \in DOMAIN groups
    /\ req' = Req("remove_member", None, member_name, None, <<>>, gid, None)
    /\ groups' = [groups EXCEPT ![gid] = remove_member(@, member_name)]
    /\ out' = Return(remove_member_result(groups[gid], member_name))
    /\ UNCHANGED <<connected, gone, clients, username_to_sid, now, pc, loc>>

store_get_group(gid) ==
    /\ req' = Req("get_group", None, None, None, <<>>, gid, None)
    /\ out' = Return(get_group(groups, gid))
    /\ UNCHANGED <<connected, gone, clients, username_to_sid, groups, now, pc, loc>>

store_get_user_groups(username) ==
    /\ req' = Req("get_user_groups", None, username, None, <<>>, NoGid, None)
    /\ out' = Return(get_user_groups(groups, username))
    /\ UNCHANGED <<connected, gone, clients, username_to_sid, groups, now, pc, loc>>

store_delete_group(gid) ==
    /\ req' = Req("delete_group", None, None, None, <<>>, gid, None)
    /\ groups' = delete_group(groups, gid)
    /\ out' = Return(gid \in DOMAIN groups)
    /\ UNCHANGED <<connected, gone, clients, username_to_sid, now, pc, loc>>

store_cleanup_expired_groups ==
    /\ req' = Req("cleanup_expired_groups", None, None, None, <<>>, NoGid, None)
    /\ groups' = cleanup_expired_groups(groups, now)
    /\ out' = Return(Cardinality(expired_groups(groups, now)))
    /\ UNCHANGED <<connected, gone, clients, username_to_sid, now, pc, loc>>

\* Time passes between two calls.
Elapse(seconds) ==
    /\ OnClock(now + seconds)
    /\ now' = now + seconds
    /\ req' = Req("elapse", None, None, None, <<>>, NoGid, None)
    /\ out' = <<>>
    /\ UNCHANGED <<connected, gone, clients, username_to_sid, groups, pc, loc>>

\* ------------------------------------------- handlers as concurrent threads
\* Flask-SocketIO starts every event handler as a task of its own and app.py
\* takes no lock; a handler is then a sequence of steps, one per read or
\* write of clients or username_to_sid and one per emit, and the steps of
\* the handlers of different connections interleave.  A step that raises an
\* exception ends its handler: loc.exc names the exception, nothing more
\* is emitted.
\*
\* loc: the locals of the handler of a connection.  op, name: the event;
\* has, res: what the handler has read and its outcome; target_pubkey: the
\* local of on_request_pubkey line 90; it_n, yielded, key,
\* acc: the iterator over clients of broadcast_user_list line 46 (size of
\* the dict when the iterator was made, keys yielded so far, key in hand)
\* and the user_map built so far.
NoLoc == [op |-> "none", name |-> None, has |-> FALSE, res |-> None, exc |-> None,
          target_pubkey |-> None,
          it_n |-> 0, yielded |-> {}, key |-> None, acc |-> <<>>]

\* The handler of sid ends by raising e.
Raise(sid, e) ==
    /\ loc' = [loc EXCEPT ![sid].exc = e, ![sid].it_n = 0, ![sid].yielded = {},
                          ![sid].key = None, ![sid].acc = <<>>]
    /\ pc' = [pc EXCEPT ![sid] = "idle"]

\* on_register_user, lines 54-57 and the first read of line 60:
\* `username in username_to_sid`
t_register_check(sid, username) ==
    /\ sid \in connected
    /\ pc[sid] = "idle"
    /\ req' = Req("register_user", sid, username, None, <<>>, NoGid, None)
    /\ loc' = [loc EXCEPT ![sid] = [NoLoc EXCEPT !.op = "register_user", !.name = username]]
    /\ pc' = [pc EXCEPT ![sid] = IF ~Truthy(username) THEN "idle"
                                 ELSE IF username \in DOMAIN username_to_sid THEN "reg_60"
                                 ELSE "reg_66"]
    /\ UNCHANGED <<connected, gone, clients, username_to_sid, groups, now, out>>

\* on_register_user, the second read of line 60:
\* `username_to_sid[username] != request.sid`
t_register_owner(sid) ==
    /\ pc[sid] = "reg_60"
    /\ IF loc[sid].name \notin DOMAIN username_to_sid
       THEN Raise(sid, "KeyError")
       ELSE /\ pc' = [pc EXCEPT ![sid] = IF username_to_sid[loc[sid].name] # sid
                                        THEN "reg_61" ELSE "reg_66"]
            /\ UNCHANGED loc
    /\ UNCHANGED <<connected, gone, clients, username_to_sid, groups, now, req, out>>

\* on_register_user, lines 61-63
t_register_taken(sid) ==
    /\ pc[sid] = "reg_61"
    /\ out' = <<Emit("registration_error", sid, None, "Username already taken")>>
    /\ loc' = [loc EXCEPT ![sid].res = "taken"]
    /\ pc' = [pc EXCEPT ![sid] = "idle"]
    /\ UNCHANGED <<connected, gone, clients, username_to_sid, groups, now, req>>

\* on_register_user, line 66
t_register_clients(sid) ==
    /\ pc[sid] = "reg_66"
    /\ clients' = RegisterClients(clients, sid, loc[sid].name)
    /\ pc' = [pc EXCEPT ![sid] = "reg_67"]
    /\ UNCHANGED <<connected, gone, username_to_sid, groups, now, req, out, loc>>

\* on_register_user, line 67
t_register_index(sid) ==
    /\ pc[sid] = "reg_67"
    /\ username_to_sid' = RegisterIndex(username_to_sid, sid, loc[sid].name)
    /\ pc' = [pc EXCEPT ![sid] = "reg_71"]
    /\ UNCHANGED <<connected, gone, clients, groups, now, req, out, loc>>

\* on_register_user, line 71
t_register_emit(sid) ==
    /\ pc[sid] = "reg_71"
    /\ out' = <<Emit("registration_confirmed", sid, None, loc[sid].name)>>
    /\ loc' = [loc EXCEPT ![sid].res = "ok"]
    /\ pc' = [pc EXCEPT ![sid] = "bul_45"]
    /\ UNCHANGED <<connected, gone, clients, username_to_sid, groups, now, req>>

\* on_disconnect, line 113
t_disconnect_get(sid) ==
    /\ sid \in connected
    /\ pc[sid] = "idle"
    /\ connected' = connected \ {sid}
    /\ gone' = gone \cup {sid}
    /\ req' = Req("disconnect", sid, NameOf(clients, sid), None, <<>>, NoGid, None)
    /\ loc' = [loc EXCEPT ![sid] = [NoLoc EXCEPT !.op = "disconnect",
                                                 !.name = NameOf(clients, sid),
                                                 !.has = Has(clients, sid)]]
    /\ pc' = [pc EXCEPT ![sid] = "dis_116"]
    /\ UNCHANGED <<clients, username_to_sid, groups, now, out>>

\* on_disconnect, line 116
t_disconnect_pop(sid) ==
    /\ pc[sid] = "dis_116"
    /\ clients' = DisconnectClients(clients, sid)
    /\ pc' = [pc EXCEPT ![sid] = "dis_119"]
    /\ UNCHANGED <<connected, gone, username_to_sid, groups, now, req, out, loc>>

\* on_disconnect, lines 119-121
t_disconnect_index(sid) ==
    /\ pc[sid] = "dis_119"
    /\ username_to_sid' = DisconnectIndex(username_to_sid, loc[sid].has, loc[sid].name)
    /\ pc' = [pc EXCEPT ![sid] = IF loc[sid].has /\ Truthy(loc[sid].name)
                                 THEN "dis_123" ELSE "bul_45"]
    /\ UNCHANGED <<connected, gone, clients, groups, now, req, out, loc>>

\* on_disconnect, line 123
t_disconnect_notice(sid) ==
    /\ pc[sid] = "dis_123"
    /\ out' = <<Emit("user_disconnected", Broadcast, sid, loc[sid].name)>>
    /\ pc' = [pc EXCEPT ![sid] = "bul_45"]
    /\ UNCHANGED <<connected, gone, clients, username_to_sid, groups, now, req, loc>>

\* broadcast_user_list, called at line 74 or 129; line 46, `for sid in
\* clients`: the iterator is made and notes the size of the dict.
t_broadcast_iter(sid) ==
    /\ pc[sid] = "bul_45"
    /\ loc' = [loc EXCEPT ![sid].it_n = Len(clients), ![sid].yielded = {},
                          ![sid].key = None, ![sid].acc = <<>>]
    /\ pc' = [pc EXCEPT ![sid] = "bul_46"]
    /\ UNCHANGED <<connected, gone, clients, username_to_sid, groups, now, req, out>>

\* The items of the dict the iterator has not passed.  A key is inserted at
\* the end and never again after its pop (a sid is not reused), so these are
\* the items not yielded yet.
IterRest(c, yielded) == SelectSeq(c, LAMBDA e : e.sid \notin yielded)

\* line 46, one next() of the dict iterator: RuntimeError when the size of
\* the dict is not the one noted ("changed size") or when an item is found
\* after as many as noted were yielded ("keys changed"); the end of the
\* comprehension when no item is left.
t_broadcast_next(sid) ==
    /\ pc[sid] = "bul_46"
    /\ IF Len(clients) # loc[sid].it_n
       THEN Raise(sid, "RuntimeError")
       ELSE IF IterRest(clients, loc[sid].yielded) = <<>>
       THEN /\ pc' = [pc EXCEPT ![sid] = "bul_47"]
            /\ UNCHANGED loc
       ELSE IF Cardinality(loc[sid].yielded) = loc[sid].it_n
       THEN Raise(sid, "RuntimeError")
       ELSE /\ loc' = [loc EXCEPT ![sid].key = Head(IterRest(clients, loc[sid].yielded)).sid,
                                  ![sid].yielded = @ \cup {Head(IterRest(clients, loc[sid].yielded)).sid}]
            /\ pc' = [pc EXCEPT ![sid] = "bul_46b"]
    /\ UNCHANGED <<connected, gone, clients, username_to_sid, groups, now, req, out>>

\* line 46, the condition for the key in hand: clients[sid].get("name");
\* KeyError when the record was popped meanwhile.
t_broadcast_test(sid) ==
    /\ pc[sid] = "bul_46b"
    /\ IF ~Has(clients, loc[sid].key)
       THEN Raise(sid, "KeyError")
       ELSE /\ pc' = [pc EXCEPT ![sid] = IF Truthy(Get(clients, loc[sid].key).name)
                                        THEN "bul_46c" ELSE "bul_46"]
            /\ UNCHANGED loc
    /\ UNCHANGED <<connected, gone, clients, username_to_sid, groups, now, req, out>>

\* line 46, the item for the key in hand: clients[sid]["name"]: sid;
\* KeyError when the record was popped meanwhile.
t_broadcast_item(sid) ==
    /\ pc[sid] = "bul_46c"
    /\ IF ~Has(clients, loc[sid].key)
       THEN Raise(sid, "KeyError")
       ELSE /\ loc' = [loc EXCEPT ![sid].acc =
                          IndexSet(@, Get(clients, loc[sid].key).name, loc[sid].key)]
            /\ pc' = [pc EXCEPT ![sid] = "bul_46"]
    /\ UNCHANGED <<connected, gone, clients, username_to_sid, groups, now, req, out>>

\* line 47
t_broadcast_emit(sid) ==
    /\ pc[sid] = "bul_47"
    /\ out' = <<Emit("user_list", Broadcast, None, loc[sid].acc)>>
    /\ loc' = [loc EXCEPT ![sid].it_n = 0, ![sid].yielded = {}, ![sid].key = None,
                          ![sid].acc = <<>>]
    /\ pc' = [pc EXCEPT ![sid] = "idle"]
    /\ UNCHANGED <<connected, gone, clients, username_to_sid, groups, now, req>>

\* on_request_pubkey, lines 80-82: username_to_sid.get(target_username);
\* `not target_sid` of line 84 reads no shared state.
t_request_pubkey(sid, target) ==
    /\ sid \in connected
    /\ pc[sid] = "idle"
    /\ req' = Req("request_pubkey", sid, target, None, <<>>, NoGid, None)
    /\ loc' = [loc EXCEPT ![sid] = [NoLoc EXCEPT !.op = "request_pubkey", !.name = target,
                                                 !.res = IndexGet(username_to_sid, target)]]
    /\ pc' = [pc EXCEPT ![sid] = IF Truthy(IndexGet(username_to_sid, target))
                                 THEN "rp_84" ELSE "rp_87"]
    /\ UNCHANGED <<connected, gone, clients, username_to_sid, groups, now, out>>

\* on_request_pubkey, line 84: `target_sid not in clients`
t_request_pubkey_test(sid) ==
    /\ pc[sid] = "rp_84"
    /\ loc' = [loc EXCEPT ![sid].has = Has(clients, loc[sid].res)]
    /\ pc' = [pc EXCEPT ![sid] = IF Has(clients, loc[sid].res) THEN "rp_90" ELSE "rp_87"]
    /\ UNCHANGED <<connected, gone, clients, username_to_sid, groups, now, req, out>>

\* on_request_pubkey, lines 85-88
t_request_pubkey_notfound(sid) ==
    /\ pc[sid] = "rp_87"
    /\ out' = <<Emit("pubkey_error", sid, None, "not found")>>
    /\ pc' = [pc EXCEPT ![sid] = "idle"]
    /\ UNCHANGED <<connected, gone, clients, username_to_sid, groups, now, req, loc>>

\* on_request_pubkey, lines 90-91: clients[target_sid].get("pubkey"),
\* KeyError when the record was popped meanwhile.
t_request_pubkey_read(sid) ==
    /\ pc[sid] = "rp_90"
    /\ IF ~Has(clients, loc[sid].res)
       THEN Raise(sid, "KeyError")
       ELSE /\ loc' = [loc EXCEPT ![sid].target_pubkey = Get(clients, loc[sid].res).pubkey]
            /\ pc' = [pc EXCEPT ![sid] = IF Truthy(Get(clients, loc[sid].res).pubkey)
                                         THEN "rp_100" ELSE "rp_94"]
    /\ UNCHANGED <<connected, gone, clients, username_to_sid, groups, now, req, out>>

\* on_request_pubkey, lines 92-94: the print of line 94 reads
\* clients[target_sid] again, KeyError when the record was popped meanwhile.
t_request_pubkey_nokey(sid) ==
    /\ pc[sid] = "rp_94"
    /\ IF ~Has(clients, loc[sid].res)
       THEN Raise(sid, "KeyError")
       ELSE /\ pc' = [pc EXCEPT ![sid] = "rp_95"]
            /\ UNCHANGED loc
    /\ UNCHANGED <<connected, gone, clients, username_to_sid, groups, now, req, out>>

\* on_request_pubkey, lines 95-96
t_request_pubkey_nokey_emit(sid) ==
    /\ pc[sid] = "rp_95"
    /\ out' = <<Emit("pubkey_error", sid, None, "has no public key")>>
    /\ pc' = [pc EXCEPT ![sid] = "idle"]
    /\ UNCHANGED <<connected, gone, clients, username_to_sid, groups, now, req, loc>>

\* on_request_pubkey, lines 99-101: the key read at line 90 is sent
t_request_pubkey_respond(sid) ==
    /\ pc[sid] = "rp_100"
    /\ out' = <<Emit("pubkey_response", sid, None, loc[sid].target_pubkey)>>
    /\ pc' = [pc EXCEPT ![sid] = "idle"]
    /\ UNCHANGED <<connected, gone, clients, username_to_sid, groups, now, req, loc>>

\* ------------------------------------------------------------ the program
Init ==
    /\ connected = {}
    /\ gone = {}
    /\ clients = <<>>
    /\ username_to_sid = <<>>
    /\ groups = <<>>
    /\ now = 0
    /\ req = NoReq
    /\ out = <<>>
    /\ pc = [s \in Sids |-> "idle"]
    /\ loc = [s \in Sids |-> NoLoc]

\* The connection registry: register, publishKey, disconnect.
NextRegistry ==
    \/ \E sid \in Sids : on_connect(sid)
    \/ \E sid \in Sids : on_disconnect(sid)
    \/ \E sid \in Sids, username \in Names \cup {None} : on_register_user(sid, username)
    \/ \E sid \in Sids, name \in Names \cup {None}, pubkey \in Keys \cup {None} :
          on_pubkey(sid, name, pubkey)

SpecRegistry == Init /\ [][NextRegistry]_vars

\* The registry and the group store.
Next ==
    \/ \E sid \in Sids : on_connect(sid)
    \/ \E sid \in Sids : on_disconnect(sid)
    \/ \E sid \in Sids, username \in Names : on_register_user(sid, username)
    \/ \E sid \in Sids, name \in Names : on_pubkey(sid, name, "k1")
    \/ \E sid \in Sids, target \in Names : on_request_pubkey(sid, target)
    \/ \E sid \in Sids, group_name \in GroupNames \cup {None}, member_names \in MemberLists :
          on_create_group(sid, group_name, member_names)
    \/ \E sid \in Sids, gid \in GidInputs, msg \in Payloads : on_send_group_message(sid, gid, msg)
    \/ \E sid \in Sids, gid \in GidInputs, encrypted_keys \in KeyDicts :
          on_distribute_group_key(sid, gid, encrypted_keys)

Spec == Init /\ [][Next]_vars

\* The registry and the one-to-one relay: requestPublicKey, sendMessage,
\* sendKemCiphertext.  A target is any handle the transport has issued, open
\* or closed.
NextRelay ==
    \/ \E sid \in Sids : on_connect(sid)
    \/ \E sid \in Sids : on_disconnect(sid)
    \/ \E sid \in Sids, username \in Names : on_register_user(sid, username)
    \/ \E sid \in Sids, name \in Names \cup {None}, pubkey \in Keys : on_pubkey(sid, name, pubkey)
    \/ \E sid \in Sids, target \in Names : on_request_pubkey(sid, target)
    \/ \E sid \in Sids, target_sid \in Sids, ciphertext \in Payloads :
          on_send_kem_ciphertext(sid, target_sid, ciphertext)
    \/ \E sid \in Sids, target_sid \in Sids, base64Message \in Payloads :
          on_send_message(sid, target_sid, base64Message)

SpecRelay == Init /\ [][NextRelay]_vars

\* register, requestPublicKey and disconnect handlers running as threads.
NextThreads ==
    \/ \E sid \in Sids : on_connect(sid)
    \/ \E sid \in Sids, username \in Names \cup {None} : t_register_check(sid, username)
    \/ \E sid \in Sids : t_register_owner(sid)
    \/ \E sid \in Sids : t_register_taken(sid)
    \/ \E sid \in Sids : t_register_clients(sid)
    \/ \E sid \in Sids : t_register_index(sid)
    \/ \E sid \in Sids : t_register_emit(sid)
    \/ \E sid \in Sids : t_disconnect_get(sid)
    \/ \E sid \in Sids : t_disconnect_pop(sid)
    \/ \E sid \in Sids : t_disconnect_index(sid)
    \/ \E sid \in Sids : t_disconnect_notice(sid)
    \/ \E sid \in Sids : t_broadcast_iter(sid)
    \/ \E sid \in Sids : t_broadcast_next(sid)
    \/ \E sid \in Sids : t_broadcast_test(sid)
    \/ \E sid \in Sids : t_broadcast_item(sid)
    \/ \E sid \in Sids : t_broadcast_emit(sid)
    \/ \E sid \in Sids, target \in Names : t_request_pubkey(sid, target)
    \/ \E sid \in Sids : t_request_pubkey_test(sid)
    \/ \E sid \in Sids : t_request_pubkey_notfound(sid)
    \/ \E sid \in Sids : t_request_pubkey_read(sid)
    \/ \E sid \in Sids : t_request_pubkey_nokey(sid)
    \/ \E sid \in Sids : t_request_pubkey_nokey_emit(sid)
    \/ \E sid \in Sids : t_request_pubkey_respond(sid)

\* The registry the concurrent handlers start from: empty, or as the first
\* connection leaves it once its register_user and pubkey events have been
\* handled one after the other (the state SpecRegistry reaches by on_connect,
\* on_register_user, on_pubkey of that connection).
InitThreads ==
    \/ Init
    \/ \E username \in Names, pubkey \in Keys :
          LET sid == SidList[1]
              c == PubkeyClients(RegisterClients(<<>>, sid, username), sid, username, pubkey)
          IN  /\ connected = {sid}
              /\ gone = {}
              /\ clients = c
              /\ username_to_sid = RegisterIndex(<<>>, sid, username)
              /\ groups = <<>>
              /\ now = 0
              /\ req = Req("pubkey", sid, username, pubkey, <<>>, NoGid, None)
              /\ out = <<broadcast_user_list(c),
                         Emit("peer_pubkeys", sid, None, peer_pubkeys(c, sid))>>
              /\ pc = [s \in Sids |-> "idle"]
              /\ loc = [s \in Sids |-> NoLoc]

SpecThreads == InitThreads /\ [][NextThreads]_vars

\* The group store, called directly, and the clock.
NextGroupStore ==
    \/ \E name \in GroupNames, admin_name \in Names, member_names \in MemberLists :
          store_create_group(name, admin_name, member_names)
    \/ \E gid \in GidInputs, member_name \in Names : store_add_member(gid, member_name)
    \/ \E gid \in GidInputs, member_name \in Names : store_remove_member(gid, member_name)
    \/ \E gid \in GidInputs : store_get_group(gid)
    \/ \E username \in Names : store_get_user_groups(username)
    \/ \E gid \in GidInputs : store_delete_group(gid)
    \/ store_cleanup_expired_groups
    \/ \E seconds \in {1, expiration_time} : Elapse(seconds)

SpecGroupStore == Init /\ [][NextGroupStore]_vars

\* --------------------------------------------------------------- claims
\* h's client record carries the display name n.
Holds(c, h, n) == Has(c, h) /\ Get(c, h).name = n

\* C1: no two connected handles have client records carrying the same
\* display name, whatever register, publishKey and disconnect events came.
C1_UniqueDisplayNames ==
    \A h1, h2 \in connected :
        (h1 # h2 /\ Has(clients, h1) /\ Truthy(Get(clients, h1).name))
            => ~Holds(clients, h2, Get(clients, h1).name)

\* C2: the name index maps n to h if and only if h has a client record
\* whose display name is n.
C2_IndexAgreesWithClients ==
    \A n \in Names, h \in Sids :
        (n \in DOMAIN username_to_sid /\ username_to_sid[n] = h) <=> Holds(clients, h, n)

\* C3: after a disconnect of a handle that held a display name, a register
\* of that name by a different handle as the next event is confirmed.
C3_NameFreedByDisconnect ==
    [][(/\ req.op = "disconnect"
        /\ Truthy(req.name)
        /\ req'.op = "register_user"
        /\ req'.name = req.name
        /\ req'.sid # req.sid)
       => (/\ Len(out') = 2
           /\ out'[1].ev = "registration_confirmed"
           /\ out'[1].to = req'.sid
           /\ Holds(clients', req'.sid, req.name)
           /\ username_to_sid'[req.name] = req'.sid)]_vars

\* A handle that held a display name has just disconnected while another
\* connection is open.
C3_Witness ==
    /\ req.op = "disconnect"
    /\ Truthy(req.name)
    /\ connected # {}
    /\ Len(out) = 2

\* C4: two register events for the same name by two different handles,
\* processed concurrently, never both succeed.
C4_NoDoubleRegistration ==
    \A h1, h2 \in connected :
        (/\ h1 # h2
         /\ loc[h1].op = "register_user" /\ loc[h1].res = "ok"
         /\ loc[h2].op = "register_user" /\ loc[h2].res = "ok")
        => loc[h1].name # loc[h2].name

\* C5: while a disconnect of a handle is in progress, no handler of another
\* connection that has read the handle of a name from the index (line 82)
\* and looked for its client record (line 84) has found the record removed
\* with the name still in the index.
C5_NoHalfUpdatedRegistry ==
    \A s \in connected :
        (/\ loc[s].op = "request_pubkey"
         /\ Truthy(loc[s].res)
         /\ pc[s] # "rp_84"
         /\ IndexGet(username_to_sid, loc[s].name) = loc[s].res
         /\ pc[loc[s].res] = "dis_119")
        => loc[s].has

\* C6: a register of a name that a different connected handle holds is
\* refused with an error to the sender alone and changes nothing; any other
\* register of a name is confirmed to the sender and followed by a presence
\* broadcast.
C6_RegisterOutcome ==
    [][(req'.op = "register_user" /\ Truthy(req'.name))
       => IF \E h \in connected \ {req'.sid} : Holds(clients, h, req'.name)
          THEN /\ Len(out') = 1
               /\ out'[1].ev = "registration_error"
               /\ out'[1].to = req'.sid
               /\ clients' = clients
               /\ username_to_sid' = username_to_sid
          ELSE /\ Len(out') = 2
               /\ out'[1].ev = "registration_confirmed"
               /\ out'[1].to = req'.sid
               /\ out'[2].ev = "user_list"
               /\ out'[2].to = Broadcast
               /\ Holds(clients', req'.sid, req'.name)]_vars

\* C7: a connection that has a stored key keeps a stored key through every
\* event but its own disconnect (a publishKey event carries a key).
C7_KeyKeptUntilDisconnect ==
    [][\A h \in connected' :
          (/\ Has(clients, h)
           /\ Truthy(Get(clients, h).pubkey)
           /\ ~(req'.op = "pubkey" /\ req'.pubkey = None))
          => (Has(clients', h) /\ Truthy(Get(clients', h).pubkey))]_vars

\* C8: a disconnect of h removes h's client record and ends with a presence
\* broadcast to the remaining connections that does not list h; if and only
\* if h had a display name, a peer-left notice carrying that name goes to
\* all other connections, not to h, before that broadcast.
C8_DisconnectNotifies ==
    [][(req'.op = "disconnect" /\ connected' # connected)
       => LET h == req'.sid
              named == Has(clients, h) /\ Truthy(Get(clients, h).name)
              last == out'[Len(out')]
          IN  /\ ~Has(clients', h)
              /\ Len(out') = (IF named THEN 2 ELSE 1)
              /\ last.ev = "user_list"
              /\ Recipients(last, connected') = connected'
              /\ \A n \in DOMAIN last.data : last.data[n] # h
              /\ named => /\ out'[1].ev = "user_disconnected"
                          /\ out'[1].data = Get(clients, h).name
                          /\ Recipients(out'[1], connected) = connected \ {h}]_vars

\* A named handle has disconnected while another connection was open.
C8_Witness ==
    /\ req.op = "disconnect"
    /\ Len(out) = 2
    /\ out[1].ev = "user_disconnected"
    /\ out[1].data \in Names
    /\ connected # {}

\* C9: every presence broadcast carries exactly the pairs name -> handle of
\* the connected clients that have a display name.
C9_PresenceExact ==
    \A i \in 1..Len(out) :
        out[i].ev = "user_list"
        => /\ \A h \in connected :
                (Has(clients, h) /\ Truthy(Get(clients, h).name))
                => (/\ Get(clients, h).name \in DOMAIN out[i].data
                    /\ out[i].data[Get(clients, h).name] = h)
           /\ \A n \in DOMAIN out[i].data :
                out[i].data[n] \in connected /\ Holds(clients, out[i].data[n], n)

\* The connections a sequence of emissions is delivered to.
Delivered(es, conns) == UNION {Recipients(es[i], conns) : i \in 1..Len(es)}

\* C10: an accepted sendGroupMessage is delivered to exactly the other
\* connected clients whose display name is a member of the group.
C10_GroupFanOutExact ==
    (/\ req.op = "send_group_message"
     /\ req.gid \in DOMAIN groups
     /\ \A i \in 1..Len(out) : out[i].ev = "recv_group_message")
    => Delivered(out, connected)
         = {h \in connected \ {req.sid} :
               Has(clients, h) /\ is_member(groups[req.gid], Get(clients, h).name)}

\* C11: in one accepted sendGroupMessage round and in one createGroup
\* invitation round, every connection that is sent the payload is sent it
\* exactly once, duplicates in the member list included.
C11_DeliveredOncePerRecipient ==
    req.op \in {"send_group_message", "create_group"}
    => \A i, j \in 1..Len(out) :
          (/\ i # j
           /\ out[i].ev \in {"recv_group_message", "group_invitation"}
           /\ out[j].ev = out[i].ev)
          => out[i].to # out[j].to

\* C12: a createGroup by a registered sender that lists a name no connected
\* client holds as display name is aborted: the sender alone gets one error
\* carrying exactly those names, no group is added, no invitation is sent.
C12_CreateGroupAllOrNothing ==
    [][(/\ req'.op = "create_group"
        /\ Truthy(NameOf(clients, req'.sid))
        /\ Truthy(req'.name)
        /\ req'.members # <<>>)
       => LET listed == {req'.members[i] : i \in 1..Len(req'.members)}
              unknown == {m \in listed : ~\E h \in connected : Holds(clients, h, m)}
          IN  unknown # {}
              => /\ Len(out') = 1
                 /\ out'[1].ev = "group_error"
                 /\ out'[1].to = req'.sid
                 /\ {out'[1].data.missing[i] : i \in 1..Len(out'[1].data.missing)} = unknown
                 /\ groups' = groups]_vars

\* The names a member list carries.
Range(q) == {q[i] : i \in 1..Len(q)}

\* C13: the group that createGroup(name, admin, members) returns and stores
\* has exactly the members listed and the admin, whether or not the admin
\* was listed.
C13_MembersAreListedPlusAdmin ==
    req.op = "create_group"
    => LET group == out[1].data
       IN  /\ Range(group.members) = Range(req.members) \cup {req.name}
           /\ group.admin_name = req.name
           /\ req.gid \in DOMAIN groups
           /\ groups[req.gid] = group

\* A group has been created by an admin its member list did not name.
C13_Witness ==
    /\ req.op = "create_group"
    /\ req.members # <<>>
    /\ ~InSeq(req.name, req.members)
    /\ req.gid \in DOMAIN groups

\* C14: removeMember of the admin returns failure and leaves the group as
\* it was, and after every call on the store the admin of every group is
\* one of its members.
C14_AdminStaysMember ==
    [][/\ \A g \in DOMAIN groups' : is_member(groups'[g], groups'[g].admin_name)
       /\ (/\ req'.op = "remove_member"
           /\ req'.gid \in DOMAIN groups
           /\ req'.name = groups[req'.gid].admin_name)
          => (out'[1].data = FALSE /\ groups' = groups)]_vars

\* removeMember was called for the admin of a group that has other members.
C14_Witness ==
    /\ req.op = "remove_member"
    /\ req.gid \in DOMAIN groups
    /\ req.name = groups[req.gid].admin_name
    /\ Len(groups[req.gid].members) > 1
    /\ out[1].data = FALSE

\* C16: getGroup and groupsForMember return no group whose age exceeds the
\* expiration time, and the sweep removes no group whose age does not.
C16_ExpiredGroupsAreGone ==
    [][/\ req'.op = "get_group"
          => \A i \in 1..Len(out'[1].data) :
                now' - out'[1].data[i].created_at <= expiration_time
       /\ req'.op = "get_user_groups"
          => \A group \in out'[1].data : now' - group.created_at <= expiration_time
       /\ req'.op = "cleanup_expired_groups"
          => \A g \in DOMAIN groups :
                now - groups[g].created_at <= expiration_time => g \in DOMAIN groups']_vars

\* C15: a distributeGroupKey for an unknown group, or by a sender that is
\* not the admin of the group, gets one error to the sender and forwards
\* nothing; by the admin, each connection receives exactly the keys of the
\* entries whose name is a member of the group and is the display name of
\* that connection, and nothing else is emitted.
C15_GroupKeysReachTheirMembers ==
    req.op = "distribute_group_key"
    => IF req.gid \notin DOMAIN groups \/ ~Holds(clients, req.sid, groups[req.gid].admin_name)
       THEN /\ Len(out) = 1
            /\ out[1].ev = "group_error"
            /\ out[1].to = req.sid
            /\ out[1].data.message = (IF req.gid \notin DOMAIN groups
                                      THEN "Group not found"
                                      ELSE "Only admin can distribute keys")
       ELSE /\ \A i \in 1..Len(out) : out[i].ev = "group_key" /\ out[i].to \in connected
            /\ \A h \in connected :
                  {out[i].data.encrypted_key : i \in {j \in 1..Len(out) : out[j].to = h}}
                    = {req.msg[i][2] :
                          i \in {j \in 1..Len(req.msg) :
                                    /\ is_member(groups[req.gid], req.msg[j][1])
                                    /\ Holds(clients, h, req.msg[j][1])}}

\* C17: a sendMessage or sendKemCiphertext to an open connection is emitted
\* once, to that connection alone, with the payload as sent and tagged with
\* the sender's display name, or with the sender's handle when the sender
\* has none; to a closed connection nothing is emitted.
C17_RelayToLiveHandle ==
    req.op \in {"send_message", "send_kem_ciphertext"}
    => IF req.name \in connected
       THEN /\ Len(out) = 1
            /\ out[1].to = req.name
            /\ out[1].data.from = (IF Has(clients, req.sid) /\ Truthy(Get(clients, req.sid).name)
                                   THEN Get(clients, req.sid).name
                                   ELSE req.sid)
            /\ IF req.op = "send_message"
               THEN out[1].ev = "recv_message" /\ out[1].data.base64Message = req.msg
               ELSE out[1].ev = "recv_kem_ciphertext" /\ out[1].data.ciphertext = req.msg
       ELSE out = <<>>

\* C18: a requestPublicKey gets one emission, to the requester: the error
\* that the target is unknown when no connected client has that display
\* name, the key of a connected client of that name when one has a key, and
\* the error that the target has no key otherwise.
C18_RequestPubkeyOutcomes ==
    req.op = "request_pubkey"
    => LET holders == {h \in connected : Holds(clients, h, req.name)}
           keyed == {h \in holders : Truthy(Get(clients, h).pubkey)}
       IN  /\ Len(out) = 1
           /\ out[1].to = req.sid
           /\ IF holders = {}
              THEN out[1].ev = "pubkey_error" /\ out[1].data = "not found"
              ELSE IF keyed = {}
              THEN out[1].ev = "pubkey_error" /\ out[1].data = "has no public key"
              ELSE /\ out[1].ev = "pubkey_response"
                   /\ \E h \in keyed : out[1].data = Get(clients, h).pubkey

\* C19: a publishKey by h is answered by one peer key set, sent to h only,
\* whose entries are exactly handle -> stored key for every connected client
\* other than h that has a key.
C19_PeerKeySetExact ==
    req.op = "pubkey"
    => /\ Len(out) = 2
       /\ out[1].ev # "peer_pubkeys"
       /\ out[2].ev = "peer_pubkeys"
       /\ out[2].to = req.sid
       /\ DOMAIN out[2].data
            = {h \in connected \ {req.sid} : Has(clients, h) /\ Truthy(Get(clients, h).pubkey)}
       /\ \A h \in DOMAIN out[2].data : out[2].data[h] = Get(clients, h).pubkey

\* A handle has published a key while another connected client had one.
C19_Witness ==
    /\ req.op = "pubkey"
    /\ Truthy(req.pubkey)
    /\ Get(clients, req.sid).pubkey = req.pubkey
    /\ Len(out) = 2
    /\ DOMAIN out[2].data # {}

\* C20: a publishKey that carries the key the handle's record already holds
\* leaves the client records and the name index as they were, and with them
\* the peer key set any handle would be sent.
C20_RepublishChangesNothing ==
    [][(/\ req'.op = "pubkey"
        /\ Has(clients, req'.sid)
        /\ Truthy(req'.pubkey)
        /\ Get(clients, req'.sid).pubkey = req'.pubkey)
       => (/\ clients' = clients
           /\ username_to_sid' = username_to_sid
           /\ \A h \in Sids : peer_pubkeys(clients', h) = peer_pubkeys(clients, h))]_vars

\* A publishKey has acted on a handle that had a record already (the record
\* keeps a display name other than the event's) and holds the event's key,
\* while another connected client has a key.
C20_Witness ==
    /\ req.op = "pubkey"
    /\ Truthy(req.pubkey)
    /\ Has(clients, req.sid)
    /\ Get(clients, req.sid).pubkey = req.pubkey
    /\ Get(clients, req.sid).name # req.name
    /\ \E h \in connected \ {req.sid} : Has(clients, h) /\ Truthy(Get(clients, h).pubkey)

\* The events that report an error.
ErrorEvents == {"registration_error", "pubkey_error", "group_error"}

\* C21: an event answered with an error is answered with that one emission,
\* addressed to the originating connection alone, and leaves the client
\* records, the name index, the group store (members and message logs) and
\* the set of open connections as they were.
C21_ErrorsAreLocalAndHarmless ==
    [][(\E i \in 1..Len(out') : out'[i].ev \in ErrorEvents)
       => (/\ Len(out') = 1
           /\ out'[1].to = req'.sid
           /\ out'[1].skip = None
           /\ Recipients(out'[1], connected') = {req'.sid}
           /\ clients' = clients
           /\ username_to_sid' = username_to_sid
           /\ groups' = groups
           /\ connected' = connected)]_vars

\* A createGroup naming an unknown member has been refused while a group
\* exists and a second connection is open.
C21_Witness ==
    /\ req.op = "create_group"
    /\ Len(out) = 1
    /\ out[1].ev = "group_error"
    /\ out[1].data.message = "Members not found"
    /\ groups # <<>>
    /\ connected # {req.sid}

\* C22: an event that lacks a required field (register without a name,
\* publishKey without a name or without a key, sendMessage or
\* sendKemCiphertext without a target, createGroup without a name or without
\* members) leaves the client records, the name index and the group store
\* as they were.
C22_MalformedEventIsNoOp ==
    [][(\/ req'.op = "register_user" /\ req'.name = None
        \/ req'.op = "pubkey" /\ (req'.name = None \/ req'.pubkey = None)
        \/ req'.op \in {"send_message", "send_kem_ciphertext"} /\ req'.name = None
        \/ req'.op = "create_group" /\ req'.sid # None
                                    /\ (req'.name = None \/ req'.members = <<>>))
       => (/\ clients' = clients
           /\ username_to_sid' = username_to_sid
           /\ groups' = groups)]_vars

\* C23: no entry of the name index maps to a handle that has disconnected,
\* and no emission is addressed to such a handle.
C23_NothingLeftOfGoneHandle ==
    /\ \A n \in DOMAIN username_to_sid : username_to_sid[n] \notin gone
    /\ \A i \in 1..Len(out) : out[i].to \notin gone
====
